---- MODULE Spec2Model ----
(***************************************************************************)
(* A state-machine model of the frontend of the LLM Structured Output app: *)
(* the fetch-based API client (lib/api.ts), the main page (app/page.tsx),  *)
(* the login page (part_003, and its older combined variant part_002) and  *)
(* the register page (app/register/page.tsx, and its older variant         *)
(* part_001), together with the browser's local storage and the router.    *)
(***************************************************************************)
EXTENDS Integers, Sequences, FiniteSets, Bags, TLC

(***************************************************************************)
(* Bounds of the model.                                                    *)
(***************************************************************************)
\* How many handler invocations may be awaiting the backend at once.
MaxCalls == 2

(***************************************************************************)
(* JavaScript values.  A value is a record tagged with its type, so that   *)
(* null, undefined, "", 0 and [] stay distinct, as they are for !x, ?? and *)
(* Array.isArray.                                                          *)
(***************************************************************************)
null == [t |-> "null"]
undefined == [t |-> "undefined"]
Str(s) == [t |-> "string", v |-> s]
Num(n) == [t |-> "number", v |-> n]
Bool(b) == [t |-> "boolean", v |-> b]
Arr(s) == [t |-> "array", v |-> s]
Obj(r) == [t |-> "object", v |-> r]
EmptyObj == Obj([k \in {} |-> null])

\* ToBoolean: what `if (x)`, `!x` and `x && ...` test.
Truthy(x) ==
  CASE x.t \in {"null", "undefined"} -> FALSE
    [] x.t = "string" -> x.v # ""
    [] x.t = "number" -> x.v # 0
    [] x.t = "boolean" -> x.v
    [] OTHER -> TRUE

\* What `x ?? y` tests.
Nullish(x) == x.t \in {"null", "undefined"}

\* Property read x.k of a value that is not null or undefined.
Get(x, k) == IF x.t = "object" /\ k \in DOMAIN x.v THEN x.v[k] ELSE undefined

\* String(x), as `new Error(x)`, a template literal and localStorage.setItem
\* apply it to a value that is not undefined.  An array is joined with
\* commas, its null and undefined elements giving the empty string.
RECURSIVE ToStr(_)
ToStr(x) ==
  CASE x.t = "string" -> x.v
    [] x.t = "number" -> ToString(x.v)
    [] x.t = "boolean" -> IF x.v THEN "true" ELSE "false"
    [] x.t = "null" -> "null"
    [] x.t = "undefined" -> "undefined"
    [] x.t = "array" ->
         LET el(k) == IF Nullish(x.v[k]) THEN "" ELSE ToStr(x.v[k])
             join[k \in 0..Len(x.v)] ==
               IF k = 0 THEN ""
               ELSE IF k = 1 THEN el(1)
               ELSE join[k - 1] \o "," \o el(k)
         IN join[Len(x.v)]
    [] OTHER -> "[object Object]"

(***************************************************************************)
(* lib/api.ts: HTTP responses and the helper j.                            *)
(***************************************************************************)
\* A response body: text that parses as JSON to a value, or text that does not.
Json(v) == [json |-> TRUE, value |-> v]
NotJson == [json |-> FALSE, value |-> undefined]
Response(ok, status, body) == [ok |-> ok, status |-> status, body |-> body]

\* What a promise settles to: a value it resolves with, or an Error with a
\* message it rejects with.
Resolved(v) == [resolved |-> TRUE, value |-> v, message |-> undefined]
Rejected(m) == [resolved |-> FALSE, value |-> undefined, message |-> Str(m)]

SyntaxErrorMessage == "Unexpected token < in JSON"
FetchErrorMessage == "Failed to fetch"

\* jMessage with `body.detail[0].msg` not followed by `?? msg`.
jMessage_nofallback(res) ==
  LET msg == "HTTP " \o ToString(res.status) IN
  IF ~res.body.json THEN msg
  ELSE
    LET body == res.body.value
        detail == IF Nullish(body) THEN undefined ELSE Get(body, "detail")
    IN IF ~Truthy(detail) THEN msg
       ELSE IF detail.t = "array"
            THEN IF Len(detail.v) = 0 \/ Nullish(detail.v[1]) THEN msg
                 ELSE LET m == Get(detail.v[1], "msg")
                      IN IF Nullish(m) THEN "" ELSE ToStr(m)
            ELSE ToStr(detail)

\* The message j throws for a non-ok response (api.ts lines 23-30).
jMessage(res) ==
  LET msg == "HTTP " \o ToString(res.status) IN
  IF ~res.body.json THEN msg
  ELSE
    LET body == res.body.value
        detail == IF Nullish(body) THEN undefined ELSE Get(body, "detail")
    IN IF ~Truthy(detail) THEN msg
       ELSE IF detail.t = "array"
            THEN IF Len(detail.v) = 0 \/ Nullish(detail.v[1]) THEN msg
                 ELSE LET m == Get(detail.v[1], "msg")
                      IN IF Nullish(m) THEN msg ELSE ToStr(m)
            ELSE ToStr(detail)

j(res) ==
  IF ~res.ok THEN Rejected(jMessage(res))
  ELSE IF res.body.json THEN Resolved(res.body.value)
       ELSE Rejected(SyntaxErrorMessage)

(***************************************************************************)
(* Texts the user edits and the code trims.  A text is a sequence of       *)
(* symbols; a symbol is one whitespace character or a run of characters    *)
(* that are not whitespace.                                                *)
(***************************************************************************)
Whitespace == {" ", "\n"}

RECURSIVE trimStart(_)
trimStart(s) ==
  IF s # <<>> /\ Head(s) \in Whitespace THEN trimStart(Tail(s)) ELSE s

RECURSIVE trimEnd(_)
trimEnd(s) ==
  IF s # <<>> /\ s[Len(s)] \in Whitespace
  THEN trimEnd(SubSeq(s, 1, Len(s) - 1))
  ELSE s

\* String.prototype.trim
trim(s) == trimEnd(trimStart(s))

(***************************************************************************)
(* The browser: the address shown, and local storage.                      *)
(***************************************************************************)
Url(path, search) == [path |-> path, search |-> search]

\* URLSearchParams.get: the first value of the key, or null.
RECURSIVE SearchGet(_, _)
SearchGet(search, key) ==
  IF search = <<>> THEN null
  ELSE IF Head(search)[1] = key THEN Str(Head(search)[2])
       ELSE SearchGet(Tail(search), key)

HomeUrl == Url("/", <<>>)
LoginUrl == Url("/login", <<>>)
RegisterUrl == Url("/register", <<>>)
RegisteredUrl == Url("/login", << <<"registered", "1">> >>)

\* The addresses a user opens.
Urls ==
  { HomeUrl, LoginUrl, RegisterUrl, RegisteredUrl,
    Url("/login", << <<"registered", "0">> >>) }

\* Access tokens the backend issues.
Tokens == {"t1", "t2"}

\* What the 'token' entry of local storage may hold when the app is opened:
\* nothing, an empty string, or a token of an earlier session.
StoredValues == {null, Str(""), Str("t1")}

\* The values typed into the username and password inputs.
Usernames == {"", "alice"}
Passwords == {"", "pw"}

(***************************************************************************)
(* The state.                                                              *)
(***************************************************************************)
VARIABLES
  storage,         \* localStorage 'token': null (no entry) or a string
  route,           \* the address of the mounted page
  loginSrc,        \* which login page is deployed: "part_003" or "part_002"
  registerSrc,     \* which register page is deployed: "page.tsx" or "part_001"
  effectPending,   \* the mounted page's useEffect has not run yet
  calls,           \* the bag of handler invocations awaiting the backend
  \* MainPage (app/page.tsx lines 11-28)
  token, prompt, fields, file, imageId, imageUrl, result, fromCache,
  uploading,
  \* LoginPage and RegisterPage
  username, password, passwordConfirm, registered, mounted, mode,
  \* every page
  loading, error,
  \* a call of the API client taken on its own (lib/api.ts lines 35-90):
  \* null, or the function called, the answer to its fetch and what its
  \* promise settled to
  apiCall,
  \* the body of the last successful response that a structured query of the
  \* mounted page completed with, null before the first: no state of the
  \* component, kept to tell what the page shows from what the backend sent
  lastResponse

mainVars ==
  <<token, prompt, fields, file, imageId, imageUrl, result, fromCache, uploading,
    lastResponse>>
authVars == <<username, password, passwordConfirm, registered, mounted, mode>>
pageVars == <<mainVars, authVars, loading, error>>
buildVars == <<loginSrc, registerSrc>>
\* The state outside the components of the pages.
outerVars == <<buildVars, apiCall>>
vars == <<storage, route, outerVars, effectPending, calls, pageVars>>

\* A fetch: the endpoint, the Authorization header (undefined when the
\* request has none) and the body.
Request(endpoint, authorization, body) ==
  [endpoint |-> endpoint, authorization |-> authorization, body |-> body]

\* An invocation of handler fn that awaits the answer to req; live while the
\* component that started it is mounted.
Call(fn, req) == [fn |-> fn, live |-> TRUE, req |-> req]

Pending == BagToSet(calls)
HasFreeSlot == BagCardinality(calls) < MaxCalls
Started(c) == calls (+) SetToBag({c})
Finished(c) == calls (-) SetToBag({c})

\* A client-side navigation unmounts the page.  The handlers of the main
\* page only set state after their await, so they are dropped with it; the
\* handlers of the login and register pages go on to write local storage
\* and to navigate, so they stay, no longer live.
Orphaned(cs) ==
  LET kept == {c \in BagToSet(cs) :
                 c.fn \notin {"MainPage.onSubmit", "MainPage.onUploadImage"}}
      count(c) == IF c \in kept THEN cs[c] ELSE 0
  IN [d \in {[c EXCEPT !.live = FALSE] : c \in kept} |->
        count(d) + count([d EXCEPT !.live = TRUE])]

(***************************************************************************)
(* Mounting a page: every useState gets its initial value.                 *)
(***************************************************************************)
InitialPrompt ==
  <<"Who", " ", "invented", " ", "the", " ", "Turing", " ", "machine?">>

InitialFields ==
  << [id |-> 1, name |-> <<"name">>, type |-> "string"],
     [id |-> 2, name |-> <<"surname">>, type |-> "string"],
     [id |-> 3, name |-> <<"inventor_birth_year">>, type |-> "number"] >>

\* Whether the page at this path runs an effect on mount.
HasEffect(path) ==
  \/ path = "/"
  \/ path = "/login" /\ loginSrc = "part_003"
  \/ path = "/register" /\ registerSrc = "page.tsx"

InitialPageState ==
  /\ token' = null
  /\ prompt' = InitialPrompt
  /\ fields' = InitialFields
  /\ file' = null
  /\ imageId' = null
  /\ imageUrl' = null
  /\ result' = null
  /\ fromCache' = FALSE
  /\ uploading' = FALSE
  /\ lastResponse' = null
  /\ username' = ""
  /\ password' = ""
  /\ passwordConfirm' = ""
  /\ registered' = FALSE
  /\ mounted' = FALSE
  /\ mode' = "login"
  /\ loading' = FALSE
  /\ error' = null

Mount(url) ==
  /\ route' = url
  /\ effectPending' = HasEffect(url.path)
  /\ InitialPageState

\* router.push(url) after the handler left the calls as cs.  A push to the
\* path of the mounted page keeps the component and its state.
Push(url, cs) ==
  IF url.path = route.path
  THEN /\ route' = url
       /\ calls' = cs
       /\ UNCHANGED <<effectPending, pageVars>>
  ELSE /\ Mount(url)
       /\ calls' = Orphaned(cs)

InitApp ==
  /\ storage \in StoredValues
  /\ route \in Urls
  /\ loginSrc \in {"part_003", "part_002"}
  /\ registerSrc \in {"page.tsx", "part_001"}
  /\ effectPending = HasEffect(route.path)
  /\ calls = EmptyBag
  /\ token = null
  /\ prompt = InitialPrompt
  /\ fields = InitialFields
  /\ file = null
  /\ imageId = null
  /\ imageUrl = null
  /\ result = null
  /\ fromCache = FALSE
  /\ uploading = FALSE
  /\ lastResponse = null
  /\ username = ""
  /\ password = ""
  /\ passwordConfirm = ""
  /\ registered = FALSE
  /\ mounted = FALSE
  /\ mode = "login"
  /\ loading = FALSE
  /\ error = null

Init ==
  /\ InitApp
  /\ apiCall = null

\* The user opens an address or reloads: a full page load, which ends every
\* script of the page that was open.
Load(url) ==
  /\ Mount(url)
  /\ calls' = EmptyBag
  /\ UNCHANGED <<storage, outerVars>>

(***************************************************************************)
(* lib/api.ts: the four calls.  Each is modelled by the request it sends   *)
(* and by what its promise settles to, given the answer to the fetch: a    *)
(* response, or no response at all (fetch rejects).                        *)
(***************************************************************************)
Answered(res) == [failed |-> FALSE, res |-> res]
NoAnswer == [failed |-> TRUE, res |-> Response(FALSE, 0, NotJson)]

TypeErrorMessage == "Cannot read properties of null"

Bearer(tok) == Str("Bearer " \o ToStr(tok))

login_request(u, p) ==
  Request("/auth/login", undefined, [username |-> u, password |-> p])

login(ans) ==
  IF ans.failed THEN Rejected(FetchErrorMessage)
  ELSE LET data == j(ans.res)
       IN IF ~data.resolved THEN data
          ELSE IF Nullish(data.value) THEN Rejected(TypeErrorMessage)
               ELSE Resolved(Get(data.value, "access_token"))

register_request(u, p, pc) ==
  Request("/auth/register", undefined,
          [username |-> u, password |-> p, password_confirm |-> pc])

register(ans) ==
  IF ans.failed THEN Rejected(FetchErrorMessage)
  ELSE LET data == j(ans.res)
       IN IF ~data.resolved THEN data ELSE Resolved(undefined)

uploadImage_request(f, tok) ==
  Request("/images/upload", Bearer(tok), [file |-> f])

uploadImage(ans) ==
  IF ans.failed THEN Rejected(FetchErrorMessage) ELSE j(ans.res)

\* getStructured without its Authorization header.
getStructured_request_noauth(body, tok) ==
  Request("/llm/structured", undefined, body)

\* body is a StructuredRequest: [prompt, fields, image_id]
getStructured_request(body, tok) ==
  Request("/llm/structured", Bearer(tok), body)

getStructured(ans) ==
  IF ans.failed THEN Rejected(FetchErrorMessage) ELSE j(ans.res)

\* err?.message ?? fallback, for the value a catch clause receives.
catchMessage(err, fallback) ==
  IF Nullish(err.message) THEN Str(fallback) ELSE err.message

(***************************************************************************)
(* The backend, an external collaborator: any of these answers may come.   *)
(***************************************************************************)
ErrorResponses ==
  { Response(FALSE, 401, Json(Obj([detail |-> Str("Incorrect username or password")]))),
    Response(FALSE, 422, Json(Obj([detail |-> Arr(<<Obj([msg |-> Str("field required")])>>)]))),
    Response(TRUE, 200, NotJson) }

LoginResponses ==
  { Response(TRUE, 200, Json(Obj([access_token |-> Str(t)]))) : t \in Tokens \cup {""} }
    \cup { Response(TRUE, 200, Json(EmptyObj)) }
    \cup ErrorResponses

RegisterResponses ==
  { Response(TRUE, 201, Json(Obj([id |-> Num(1)]))) } \cup ErrorResponses

Answers(responses) == {NoAnswer} \cup {Answered(r) : r \in responses}
LoginAnswers == Answers(LoginResponses)
RegisterAnswers == Answers(RegisterResponses)

\* The files the user picks from.
Files == {"a.png", "b.png"}
File(n) == Obj([name |-> n])

\* The image the backend stores for a file: files of different content get
\* different ids.
StoredImage(f) ==
  IF f = File("a.png")
  THEN Obj([id |-> Num(1), url |-> Str("http://minio:9000/images/a.png")])
  ELSE Obj([id |-> Num(2), url |-> Str("http://minio:9000/images/b.png")])

UploadResponses(req) ==
  { Response(TRUE, 200, Json(StoredImage(req.body.file))) } \cup ErrorResponses

\* The data objects the LLM call fills in.
Datas ==
  { Obj([name |-> Str("Alan")]), Obj([name |-> null]) }

StructuredResponses ==
  { Response(TRUE, 200, Json(Obj([data |-> d, from_cache |-> Bool(b)]))) :
      d \in Datas, b \in BOOLEAN }
    \cup ErrorResponses
StructuredAnswers == Answers(StructuredResponses)


(***************************************************************************)
(* LoginPage (part_003).                                                   *)
(***************************************************************************)
OnLoginPage(src) == route.path = "/login" /\ loginSrc = src
OnRegisterPage(src) == route.path = "/register" /\ registerSrc = src
OnMainPage == route.path = "/"

\* part_003 lines 18-27
LoginPage_useEffect ==
  /\ OnLoginPage("part_003")
  /\ effectPending
  /\ effectPending' = FALSE
  /\ username' = ""
  /\ password' = ""
  /\ mounted' = TRUE
  /\ registered' = (SearchGet(route.search, "registered") = Str("1"))
  /\ UNCHANGED <<storage, route, outerVars, calls, mainVars, passwordConfirm,
                 mode, loading, error>>

\* part_003 lines 29-34, to the await
LoginPage_onSubmit ==
  /\ OnLoginPage("part_003")
  /\ HasFreeSlot
  /\ error' = null
  /\ loading' = TRUE
  /\ calls' = Started(Call("LoginPage.onSubmit", login_request(username, password)))
  /\ UNCHANGED <<storage, route, outerVars, effectPending, mainVars, authVars>>

\* The login continuation that navigates without storing the token.
LoginPage_onSubmit_login_nostore(c, tok) ==
  IF tok.resolved /\ Truthy(tok.value)
  THEN /\ storage' = storage
       /\ Push(HomeUrl, Finished(c))
  ELSE /\ calls' = Finished(c)
       /\ UNCHANGED <<storage, route, effectPending, mainVars, authVars>>
       /\ IF c.live
          THEN /\ error' = IF tok.resolved THEN Str("No token returned")
                           ELSE catchMessage(tok, "Something went wrong")
               /\ loading' = FALSE
          ELSE UNCHANGED <<loading, error>>

\* The login continuation that tests the token with `token == null`.
LoginPage_onSubmit_login_nullcheck(c, tok) ==
  IF tok.resolved /\ ~Nullish(tok.value)
  THEN /\ storage' = Str(ToStr(tok.value))
       /\ Push(HomeUrl, Finished(c))
  ELSE /\ calls' = Finished(c)
       /\ UNCHANGED <<storage, route, effectPending, mainVars, authVars>>
       /\ IF c.live
          THEN /\ error' = IF tok.resolved THEN Str("No token returned")
                           ELSE catchMessage(tok, "Something went wrong")
               /\ loading' = FALSE
          ELSE UNCHANGED <<loading, error>>

\* The rest of a login submit, from `const token = await login(...)` on
\* (part_003 lines 34-43, part_002 lines 29-38), for the call c.
LoginPage_onSubmit_login(c, tok) ==
  IF tok.resolved /\ Truthy(tok.value)
  THEN /\ storage' = Str(ToStr(tok.value))
       /\ Push(HomeUrl, Finished(c))
  ELSE /\ calls' = Finished(c)
       /\ UNCHANGED <<storage, route, effectPending, mainVars, authVars>>
       /\ IF c.live
          THEN /\ error' = IF tok.resolved THEN Str("No token returned")
                           ELSE catchMessage(tok, "Something went wrong")
               /\ loading' = FALSE
          ELSE UNCHANGED <<loading, error>>

LoginPage_onSubmit_settle(c, ans) ==
  /\ c \in Pending
  /\ c.fn = "LoginPage.onSubmit"
  /\ c.req.endpoint = "/auth/login"
  /\ LoginPage_onSubmit_login(c, login(ans))
  /\ UNCHANGED outerVars

\* part_003 lines 162 and 259
LoginPage_goRegister ==
  /\ OnLoginPage("part_003")
  /\ Push(RegisterUrl, calls)
  /\ UNCHANGED <<storage, outerVars>>

(***************************************************************************)
(* LoginPage, the combined variant with a register mode (part_002).        *)
(***************************************************************************)
\* part_002 lines 53 and 68
setMode(m) ==
  /\ OnLoginPage("part_002")
  /\ mode' = m
  /\ UNCHANGED <<storage, route, outerVars, effectPending, calls, mainVars,
                 username, password, passwordConfirm, registered, mounted,
                 loading, error>>

\* part_002 lines 17-29, to the first await
LoginPage2_onSubmit ==
  /\ OnLoginPage("part_002")
  /\ UNCHANGED <<storage, route, outerVars, effectPending, mainVars, authVars>>
  /\ IF mode = "register" /\ password # passwordConfirm
     THEN /\ error' = catchMessage(Rejected("Passwords do not match"),
                                   "Something went wrong")
          /\ loading' = FALSE
          /\ UNCHANGED calls
     ELSE /\ HasFreeSlot
          /\ error' = null
          /\ loading' = TRUE
          /\ calls' = Started(Call("LoginPage.onSubmit",
                        IF mode = "register"
                        THEN register_request(username, password, passwordConfirm)
                        ELSE login_request(username, password)))

\* The combined page going on to login whatever register returned.
LoginPage2_onSubmit_registered_always(c, ans) ==
  /\ c \in Pending
  /\ c.fn = "LoginPage.onSubmit"
  /\ c.req.endpoint = "/auth/register"
  /\ UNCHANGED <<storage, route, outerVars, effectPending, mainVars, authVars>>
  /\ LET b == c.req.body
     IN /\ calls' = Finished(c) (+)
                      SetToBag({[c EXCEPT !.req = login_request(b.username, b.password)]})
        /\ UNCHANGED <<loading, error>>

\* part_002 lines 26-29 and 34-38: after `await register(...)`
LoginPage2_onSubmit_registered(c, ans) ==
  /\ c \in Pending
  /\ c.fn = "LoginPage.onSubmit"
  /\ c.req.endpoint = "/auth/register"
  /\ UNCHANGED <<storage, route, outerVars, effectPending, mainVars, authVars>>
  /\ LET r == register(ans)
         b == c.req.body
     IN IF r.resolved
        THEN /\ calls' = Finished(c) (+)
                          SetToBag({[c EXCEPT !.req = login_request(b.username, b.password)]})
             /\ UNCHANGED <<loading, error>>
        ELSE /\ calls' = Finished(c)
             /\ IF c.live
                THEN /\ error' = catchMessage(r, "Something went wrong")
                     /\ loading' = FALSE
                ELSE UNCHANGED <<loading, error>>

(***************************************************************************)
(* RegisterPage (app/register/page.tsx) and its older variant (part_001).  *)
(***************************************************************************)
\* register/page.tsx lines 17-23
RegisterPage_useEffect ==
  /\ OnRegisterPage("page.tsx")
  /\ effectPending
  /\ effectPending' = FALSE
  /\ username' = ""
  /\ password' = ""
  /\ passwordConfirm' = ""
  /\ mounted' = TRUE
  /\ UNCHANGED <<storage, route, outerVars, calls, mainVars, registered, mode,
                 loading, error>>

\* The message a failed submit shows when the thrown value has none.
RegisterFallback ==
  IF registerSrc = "page.tsx" THEN "Something went wrong" ELSE "Failed to register"

\* The register submit without the comparison of the two passwords.
RegisterPage_onSubmit_nocompare ==
  /\ route.path = "/register"
  /\ UNCHANGED <<storage, route, outerVars, effectPending, mainVars, authVars>>
  /\ HasFreeSlot
  /\ error' = null
  /\ loading' = TRUE
  /\ calls' = Started(Call("RegisterPage.onSubmit",
                register_request(username, password, passwordConfirm)))

\* register/page.tsx lines 25-34 and part_001 lines 16-26, to the await
RegisterPage_onSubmit ==
  /\ route.path = "/register"
  /\ UNCHANGED <<storage, route, outerVars, effectPending, mainVars, authVars>>
  /\ IF password # passwordConfirm
     THEN /\ error' = catchMessage(Rejected("Passwords do not match"), RegisterFallback)
          /\ loading' = FALSE
          /\ UNCHANGED calls
     ELSE /\ HasFreeSlot
          /\ error' = null
          /\ loading' = TRUE
          /\ calls' = Started(Call("RegisterPage.onSubmit",
                        register_request(username, password, passwordConfirm)))

\* The register continuation that navigates whatever the call settled to.
RegisterPage_onSubmit_settle_always(c, ans) ==
  /\ c \in Pending
  /\ c.fn = "RegisterPage.onSubmit"
  /\ UNCHANGED <<storage, outerVars>>
  /\ Push(RegisteredUrl, Finished(c))

\* register/page.tsx lines 36-46 and part_001 lines 28-33: after the await
RegisterPage_onSubmit_settle(c, ans) ==
  /\ c \in Pending
  /\ c.fn = "RegisterPage.onSubmit"
  /\ UNCHANGED <<storage, outerVars>>
  /\ LET r == register(ans) IN
     IF r.resolved
     THEN Push(RegisteredUrl, Finished(c))
     ELSE /\ calls' = Finished(c)
          /\ UNCHANGED <<route, effectPending, mainVars, authVars>>
          /\ IF c.live
             THEN /\ error' = catchMessage(r, RegisterFallback)
                  /\ loading' = FALSE
             ELSE UNCHANGED <<loading, error>>

\* register/page.tsx lines 138 and 276
RegisterPage_goLogin ==
  /\ OnRegisterPage("page.tsx")
  /\ Push(LoginUrl, calls)
  /\ UNCHANGED <<storage, outerVars>>

(***************************************************************************)
(* What the user types, in any of the login and register pages.            *)
(***************************************************************************)
ConfirmRendered ==
  \/ route.path = "/register"
  \/ OnLoginPage("part_002") /\ mode = "register"

setUsername(v) ==
  /\ route.path \in {"/login", "/register"}
  /\ username' = v
  /\ UNCHANGED <<storage, route, outerVars, effectPending, calls, mainVars,
                 password, passwordConfirm, registered, mounted, mode, loading,
                 error>>

setPassword(v) ==
  /\ route.path \in {"/login", "/register"}
  /\ password' = v
  /\ UNCHANGED <<storage, route, outerVars, effectPending, calls, mainVars,
                 username, passwordConfirm, registered, mounted, mode, loading,
                 error>>

setPasswordConfirm(v) ==
  /\ ConfirmRendered
  /\ passwordConfirm' = v
  /\ UNCHANGED <<storage, route, outerVars, effectPending, calls, mainVars,
                 username, password, registered, mounted, mode, loading, error>>

(***************************************************************************)
(* MainPage (app/page.tsx).                                                *)
(***************************************************************************)
\* The mount effect that tests the stored value with `t === null`.
MainPage_useEffect_nullcheck ==
  /\ OnMainPage
  /\ effectPending
  /\ LET t == storage IN
     IF t = null
     THEN Push(LoginUrl, calls)
     ELSE /\ token' = t
          /\ effectPending' = FALSE
          /\ UNCHANGED <<route, calls, prompt, fields, file, imageId, imageUrl,
                         result, fromCache, lastResponse, uploading, authVars, loading, error>>
  /\ UNCHANGED <<storage, outerVars>>

\* page.tsx lines 31-38
MainPage_useEffect ==
  /\ OnMainPage
  /\ effectPending
  /\ LET t == storage IN
     IF ~Truthy(t)
     THEN Push(LoginUrl, calls)
     ELSE /\ token' = t
          /\ effectPending' = FALSE
          /\ UNCHANGED <<route, calls, prompt, fields, file, imageId, imageUrl,
                         result, fromCache, lastResponse, uploading, authVars, loading, error>>
  /\ UNCHANGED <<storage, outerVars>>

\* page.tsx line 142
setPrompt(v) ==
  /\ OnMainPage
  /\ prompt' = v
  /\ UNCHANGED <<storage, route, outerVars, effectPending, calls, token, fields,
                 file, imageId, imageUrl, result, fromCache, lastResponse, uploading, authVars,
                 loading, error>>

\* fs.map(g), for the sequence fs
map(fs, g(_)) == [k \in 1..Len(fs) |-> g(fs[k])]

fieldsUnchanged ==
  UNCHANGED <<storage, route, outerVars, effectPending, calls, token, prompt,
              file, imageId, imageUrl, result, fromCache, lastResponse, uploading, authVars,
              loading, error>>

\* updateField without the test f.id === id: the patch goes into every row.
updateField_all(id, patch) ==
  /\ OnMainPage
  /\ LET merged(f) == [k \in DOMAIN f |-> IF k \in DOMAIN patch THEN patch[k] ELSE f[k]]
     IN fields' = map(fields, merged)
  /\ fieldsUnchanged

\* page.tsx lines 40-42; patch is a function from some of a row's keys to
\* their new values
updateField(id, patch) ==
  /\ OnMainPage
  /\ LET merged(f) == [k \in DOMAIN f |-> IF k \in DOMAIN patch THEN patch[k] ELSE f[k]]
         g(f) == IF f.id = id THEN merged(f) ELSE f
     IN fields' = map(fields, g)
  /\ fieldsUnchanged

\* page.tsx lines 44-47; now is what Date.now() returns
addField(now) ==
  /\ OnMainPage
  /\ LET id == now IN
     fields' = fields \o << [id |-> id, name |-> <<>>, type |-> "string"] >>
  /\ fieldsUnchanged

\* page.tsx lines 49-51
removeField(id) ==
  /\ OnMainPage
  /\ LET keep(f) == f.id # id IN fields' = SelectSeq(fields, keep)
  /\ fieldsUnchanged

\* The file input's onChange without setImageId(null) and setImageUrl(null).
onFileChange_keepimage(f) ==
  /\ OnMainPage
  /\ file' = f
  /\ UNCHANGED <<storage, route, outerVars, effectPending, calls, token, prompt,
                 fields, imageId, imageUrl, result, fromCache, lastResponse,
                 uploading, authVars, loading, error>>

\* page.tsx lines 287-292; f is e.target.files?.[0] ?? null
onFileChange(f) ==
  /\ OnMainPage
  /\ file' = f
  /\ imageId' = null
  /\ imageUrl' = null
  /\ UNCHANGED <<storage, route, outerVars, effectPending, calls, token, prompt,
                 fields, result, fromCache, lastResponse, uploading, authVars, loading, error>>

\* page.tsx lines 53-58, to the await
onUploadImage ==
  /\ OnMainPage
  /\ UNCHANGED <<storage, route, outerVars, effectPending, token, prompt, fields,
                 file, imageId, imageUrl, result, fromCache, lastResponse, authVars, loading>>
  /\ IF ~Truthy(token) \/ ~Truthy(file)
     THEN UNCHANGED <<calls, uploading, error>>
     ELSE /\ HasFreeSlot
          /\ uploading' = TRUE
          /\ error' = null
          /\ calls' = Started(Call("MainPage.onUploadImage",
                                   uploadImage_request(file, token)))

\* The rest of an upload with setUploading(false) after the await instead
\* of in `finally`: a failed upload skips it.
onUploadImage_settle_nofinally(c, ans) ==
  /\ c \in Pending
  /\ c.fn = "MainPage.onUploadImage"
  /\ calls' = Finished(c)
  /\ UNCHANGED <<storage, route, outerVars, effectPending, token, prompt, fields,
                 file, result, fromCache, lastResponse, authVars, loading>>
  /\ LET r == uploadImage(ans) IN
     IF r.resolved
     THEN /\ imageId' = Get(r.value, "id")
          /\ imageUrl' = Get(r.value, "url")
          /\ uploading' = FALSE
          /\ UNCHANGED error
     ELSE /\ error' = catchMessage(r, "Failed to upload image")
          /\ UNCHANGED <<imageId, imageUrl, uploading>>

\* The rest of an upload without setImageUrl(url).
onUploadImage_settle_nourl(c, ans) ==
  /\ c \in Pending
  /\ c.fn = "MainPage.onUploadImage"
  /\ calls' = Finished(c)
  /\ uploading' = FALSE
  /\ UNCHANGED <<storage, route, outerVars, effectPending, token, prompt, fields,
                 file, result, fromCache, lastResponse, authVars, loading>>
  /\ LET r == uploadImage(ans) IN
     IF r.resolved
     THEN /\ imageId' = Get(r.value, "id")
          /\ UNCHANGED <<imageUrl, error>>
     ELSE /\ error' = catchMessage(r, "Failed to upload image")
          /\ UNCHANGED <<imageId, imageUrl>>

\* page.tsx lines 58-65, after the await
onUploadImage_settle(c, ans) ==
  /\ c \in Pending
  /\ c.fn = "MainPage.onUploadImage"
  /\ calls' = Finished(c)
  /\ uploading' = FALSE
  /\ UNCHANGED <<storage, route, outerVars, effectPending, token, prompt, fields,
                 file, result, fromCache, lastResponse, authVars, loading>>
  /\ LET r == uploadImage(ans) IN
     IF r.resolved
     THEN /\ imageId' = Get(r.value, "id")
          /\ imageUrl' = Get(r.value, "url")
          /\ UNCHANGED error
     ELSE /\ error' = catchMessage(r, "Failed to upload image")
          /\ UNCHANGED <<imageId, imageUrl>>

\* cleanFields that filters the names as typed and trims none.
cleanFields_untrimmed(fs) ==
  LET g(f) == [name |-> f.name, type |-> f.type]
      named(f) == f.name # <<>>
  IN SelectSeq(map(fs, g), named)

\* page.tsx lines 79-81
cleanFields(fs) ==
  LET g(f) == [name |-> trim(f.name), type |-> f.type]
      named(f) == f.name # <<>>
  IN SelectSeq(map(fs, g), named)

\* A submit without the test of cleanFields.length.
MainPage_onSubmit_unchecked ==
  /\ OnMainPage
  /\ UNCHANGED <<storage, outerVars>>
  /\ IF ~Truthy(token)
     THEN /\ Push(LoginUrl, calls)
     ELSE /\ UNCHANGED <<route, effectPending, token, prompt, fields, file,
                         imageId, imageUrl, uploading, authVars, lastResponse>>
          /\ result' = null
          /\ fromCache' = FALSE
          /\ IF FALSE
             THEN /\ error' = catchMessage(Rejected("Add at least one field"),
                                           "Failed to get structured response")
                  /\ loading' = FALSE
                  /\ UNCHANGED calls
             ELSE /\ HasFreeSlot
                  /\ error' = null
                  /\ loading' = TRUE
                  /\ calls' = Started(Call("MainPage.onSubmit",
                       getStructured_request(
                         [prompt |-> trim(prompt),
                          fields |-> cleanFields(fields),
                          image_id |-> imageId],
                         token)))

\* A submit without setResult(null) and setFromCache(false).
MainPage_onSubmit_keepresult ==
  /\ OnMainPage
  /\ UNCHANGED <<storage, outerVars>>
  /\ IF ~Truthy(token)
     THEN /\ Push(LoginUrl, calls)
     ELSE /\ UNCHANGED <<route, effectPending, token, prompt, fields, file,
                         imageId, imageUrl, uploading, authVars, lastResponse>>
          /\ UNCHANGED <<result, fromCache>>
          /\ IF Len(cleanFields(fields)) = 0
             THEN /\ error' = catchMessage(Rejected("Add at least one field"),
                                           "Failed to get structured response")
                  /\ loading' = FALSE
                  /\ UNCHANGED calls
             ELSE /\ HasFreeSlot
                  /\ error' = null
                  /\ loading' = TRUE
                  /\ calls' = Started(Call("MainPage.onSubmit",
                       getStructured_request(
                         [prompt |-> trim(prompt),
                          fields |-> cleanFields(fields),
                          image_id |-> imageId],
                         token)))

\* page.tsx lines 68-91, to the await
MainPage_onSubmit ==
  /\ OnMainPage
  /\ UNCHANGED <<storage, outerVars>>
  /\ IF ~Truthy(token)
     THEN /\ Push(LoginUrl, calls)
     ELSE /\ UNCHANGED <<route, effectPending, token, prompt, fields, file,
                         imageId, imageUrl, uploading, authVars, lastResponse>>
          /\ result' = null
          /\ fromCache' = FALSE
          /\ IF Len(cleanFields(fields)) = 0
             THEN /\ error' = catchMessage(Rejected("Add at least one field"),
                                           "Failed to get structured response")
                  /\ loading' = FALSE
                  /\ UNCHANGED calls
             ELSE /\ HasFreeSlot
                  /\ error' = null
                  /\ loading' = TRUE
                  /\ calls' = Started(Call("MainPage.onSubmit",
                       getStructured_request(
                         [prompt |-> trim(prompt),
                          fields |-> cleanFields(fields),
                          image_id |-> imageId],
                         token)))

\* The rest of a submit without setFromCache(resp.from_cache).
MainPage_onSubmit_settle_noflag(c, ans) ==
  /\ c \in Pending
  /\ c.fn = "MainPage.onSubmit"
  /\ calls' = Finished(c)
  /\ loading' = FALSE
  /\ UNCHANGED <<storage, route, outerVars, effectPending, token, prompt, fields,
                 file, imageId, imageUrl, uploading, authVars>>
  /\ LET resp == getStructured(ans) IN
     IF resp.resolved
     THEN /\ result' = Get(resp.value, "data")
          /\ lastResponse' = resp.value
          /\ UNCHANGED <<fromCache, error>>
     ELSE /\ error' = catchMessage(resp, "Failed to get structured response")
          /\ UNCHANGED <<result, fromCache, lastResponse>>

\* page.tsx lines 84-98, after the await
MainPage_onSubmit_settle(c, ans) ==
  /\ c \in Pending
  /\ c.fn = "MainPage.onSubmit"
  /\ calls' = Finished(c)
  /\ loading' = FALSE
  /\ UNCHANGED <<storage, route, outerVars, effectPending, token, prompt, fields,
                 file, imageId, imageUrl, uploading, authVars>>
  /\ LET resp == getStructured(ans) IN
     IF resp.resolved
     THEN /\ result' = Get(resp.value, "data")
          /\ fromCache' = Get(resp.value, "from_cache").v
          /\ lastResponse' = resp.value
          /\ UNCHANGED error
     ELSE /\ error' = catchMessage(resp, "Failed to get structured response")
          /\ UNCHANGED <<result, fromCache, lastResponse>>

\* logout without localStorage.removeItem("token").
logout_keepstorage ==
  /\ OnMainPage
  /\ Push(LoginUrl, calls)
  /\ UNCHANGED <<storage, outerVars>>

\* page.tsx lines 101-105
logout ==
  /\ OnMainPage
  /\ storage' = null
  /\ Push(LoginUrl, calls)
  /\ UNCHANGED outerVars

\* page.tsx lines 107-113: what the page renders.
RendersPlaceholder == OnMainPage /\ ~Truthy(token)
RendersForm == OnMainPage /\ Truthy(token)

\* The submit button of every form: disabled={loading} (page.tsx line 251,
\* part_003 line 243, register/page.tsx line 260, part_001 line 127,
\* part_002 line 133).
SubmitDisabled == loading

\* page.tsx line 296: the upload button.
UploadDisabled == ~Truthy(file) \/ ~Truthy(token) \/ uploading

\* page.tsx lines 336-340: the marker next to "Structured response".
CacheMarker ==
  IF Truthy(result)
  THEN IF fromCache THEN "from cache" ELSE "fresh"
  ELSE "none"

(***************************************************************************)
(* The app as its user drives it: handlers run when the control that       *)
(* triggers them is rendered and enabled, effects run before any input.    *)
(***************************************************************************)
Next ==
  \/ \E url \in Urls : Load(url)
  \/ LoginPage_useEffect
  \/ MainPage_useEffect
  \/ \E v \in Usernames : ~effectPending /\ setUsername(v)
  \/ \E v \in Passwords : ~effectPending /\ setPassword(v)
  \/ \E v \in Passwords : ~effectPending /\ setPasswordConfirm(v)
  \/ ~effectPending /\ ~loading /\ LoginPage_onSubmit
  \/ \E c \in Pending, ans \in LoginAnswers : LoginPage_onSubmit_settle(c, ans)
  \/ ~effectPending /\ LoginPage_goRegister
  \/ \E m \in {"login", "register"} : setMode(m)
  \/ ~loading /\ LoginPage2_onSubmit
  \/ \E c \in Pending, ans \in RegisterAnswers : LoginPage2_onSubmit_registered(c, ans)
  \/ RegisterPage_useEffect
  \/ ~effectPending /\ ~loading /\ RegisterPage_onSubmit
  \/ \E c \in Pending, ans \in RegisterAnswers : RegisterPage_onSubmit_settle(c, ans)
  \/ ~effectPending /\ RegisterPage_goLogin
  \/ RendersForm /\ logout
  \/ \E f \in {null} \cup {File(n) : n \in Files} : RendersForm /\ onFileChange(f)
  \/ RendersForm /\ Truthy(file) /\ ~uploading /\ onUploadImage
  \/ \E c \in Pending :
       /\ c.fn = "MainPage.onUploadImage"
       /\ \E ans \in Answers(UploadResponses(c.req)) : onUploadImage_settle(c, ans)
  \/ RendersForm /\ ~loading /\ MainPage_onSubmit
  \/ \E c \in Pending, ans \in StructuredAnswers : MainPage_onSubmit_settle(c, ans)

Spec == Init /\ [][Next]_vars

(***************************************************************************)
(* The app with a backend that answers: a call that stays unanswered is    *)
(* answered at last, or the fetch fails.                                   *)
(***************************************************************************)
LoginSettles ==
  \E c \in Pending, ans \in LoginAnswers : LoginPage_onSubmit_settle(c, ans)
RegisterLoginSettles ==
  \E c \in Pending, ans \in RegisterAnswers : LoginPage2_onSubmit_registered(c, ans)
RegisterSettles ==
  \E c \in Pending, ans \in RegisterAnswers : RegisterPage_onSubmit_settle(c, ans)
UploadSettles ==
  \E c \in Pending :
    /\ c.fn = "MainPage.onUploadImage"
    /\ \E ans \in Answers(UploadResponses(c.req)) : onUploadImage_settle(c, ans)
QuerySettles ==
  \E c \in Pending, ans \in StructuredAnswers : MainPage_onSubmit_settle(c, ans)

SpecFair ==
  /\ Spec
  /\ WF_vars(LoginSettles)
  /\ WF_vars(RegisterLoginSettles)
  /\ WF_vars(RegisterSettles)
  /\ WF_vars(UploadSettles)
  /\ WF_vars(QuerySettles)

(***************************************************************************)
(* The session: the login and register pages in full, and of the main page *)
(* its mount effect and logout, without the form it renders.               *)
(***************************************************************************)
NextAuth ==
  \/ \E url \in Urls : Load(url)
  \/ LoginPage_useEffect
  \/ MainPage_useEffect
  \/ \E v \in Usernames : ~effectPending /\ setUsername(v)
  \/ \E v \in Passwords : ~effectPending /\ setPassword(v)
  \/ \E v \in Passwords : ~effectPending /\ setPasswordConfirm(v)
  \/ ~effectPending /\ ~loading /\ LoginPage_onSubmit
  \/ \E c \in Pending, ans \in LoginAnswers : LoginPage_onSubmit_settle(c, ans)
  \/ ~effectPending /\ LoginPage_goRegister
  \/ \E m \in {"login", "register"} : setMode(m)
  \/ ~loading /\ LoginPage2_onSubmit
  \/ \E c \in Pending, ans \in RegisterAnswers : LoginPage2_onSubmit_registered(c, ans)
  \/ RegisterPage_useEffect
  \/ ~effectPending /\ ~loading /\ RegisterPage_onSubmit
  \/ \E c \in Pending, ans \in RegisterAnswers : RegisterPage_onSubmit_settle(c, ans)
  \/ ~effectPending /\ RegisterPage_goLogin
  \/ RendersForm /\ logout

SpecAuth == Init /\ [][NextAuth]_vars

(***************************************************************************)
(* The handlers of the deployed pages (app/page.tsx, part_003 and          *)
(* app/register/page.tsx) called directly: each may run in any state of    *)
(* the page that defines it, whatever the page renders or disables.  The   *)
(* early returns of the handlers are the only guards.                      *)
(***************************************************************************)
InitH ==
  /\ Init
  /\ loginSrc = "part_003"
  /\ registerSrc = "page.tsx"

NextH ==
  \/ \E url \in Urls : Load(url)
  \/ LoginPage_useEffect
  \/ RegisterPage_useEffect
  \/ MainPage_useEffect
  \/ \E v \in Usernames : setUsername(v)
  \/ \E v \in Passwords : setPassword(v)
  \/ \E v \in Passwords : setPasswordConfirm(v)
  \/ LoginPage_onSubmit
  \/ RegisterPage_onSubmit
  \/ \E c \in Pending, ans \in LoginAnswers : LoginPage_onSubmit_settle(c, ans)
  \/ \E c \in Pending, ans \in RegisterAnswers : RegisterPage_onSubmit_settle(c, ans)
  \/ logout
  \/ \E f \in {null} \cup {File(n) : n \in Files} : onFileChange(f)
  \/ ~Truthy(token) /\ onUploadImage
  \/ Truthy(token) /\ ~Truthy(file) /\ onUploadImage
  \/ Truthy(token) /\ Truthy(file) /\ onUploadImage
  \/ \E c \in Pending :
       /\ c.fn = "MainPage.onUploadImage"
       /\ \E ans \in Answers(UploadResponses(c.req)) : onUploadImage_settle(c, ans)
  \/ ~Truthy(token) /\ MainPage_onSubmit
  \/ Truthy(token) /\ MainPage_onSubmit
  \/ \E c \in Pending, ans \in StructuredAnswers : MainPage_onSubmit_settle(c, ans)

SpecH == InitH /\ [][NextH]_vars

(***************************************************************************)
(* The form of a signed-in user: the prompt and the field rows are edited   *)
(* through their controls, a file is picked and uploaded, and the form is   *)
(* submitted.  The user edits between queries: MainPage.onSubmit reads the  *)
(* form before its await and never after it, so an edit made while a query  *)
(* is under way leads to no form the next submit could not find anyway.     *)
(***************************************************************************)
\* How many field rows the form may hold (the page itself sets no limit).
MaxFields == 3

\* What Date.now() returns when "Add field" is clicked; clicks may fall in
\* the same millisecond.
Timestamps == {1001}

\* What the user types into the prompt and into the name of a field.
Prompts == { <<" ", "Why", " ", "so?", "\n">> }
FieldNames == { <<" ">>, <<" ", "first", " ", "name", "\n">> }

\* page.tsx line 182: the patch the name input of a row passes.
Patches == {[name |-> n] : n \in FieldNames}

InitForm ==
  /\ Init
  /\ loginSrc = "part_003"
  /\ registerSrc = "page.tsx"
  /\ route = HomeUrl
  /\ storage = Str("t1")

NextForm ==
  \/ MainPage_useEffect
  \/ \E v \in Prompts : RendersForm /\ ~loading /\ setPrompt(v)
  \/ \E k \in 1..Len(fields), p \in Patches :
       RendersForm /\ ~loading /\ updateField(fields[k].id, p)
  \/ \E now \in Timestamps :
       RendersForm /\ ~loading /\ Len(fields) < MaxFields /\ addField(now)
  \/ \E k \in 1..Len(fields) : RendersForm /\ ~loading /\ removeField(fields[k].id)
  \/ RendersForm /\ onFileChange(File("a.png"))
  \/ RendersForm /\ Truthy(file) /\ ~uploading /\ onUploadImage
  \/ \E c \in Pending :
       /\ c.fn = "MainPage.onUploadImage"
       /\ \E ans \in Answers(UploadResponses(c.req)) : onUploadImage_settle(c, ans)
  \/ RendersForm /\ ~loading /\ MainPage_onSubmit
  \/ \E c \in Pending, ans \in StructuredAnswers : MainPage_onSubmit_settle(c, ans)

SpecForm == InitForm /\ [][NextForm]_vars

(***************************************************************************)
(* The API client on its own: one call of one of its four functions, for   *)
(* every answer its fetch may get, whatever backend sends it.              *)
(***************************************************************************)
ApiFns == {"login", "register", "uploadImage", "getStructured"}

\* The values of `detail` in a response body.
Details ==
  { null, Str(""), Str("Not authenticated"), Num(0), Num(7), Bool(FALSE),
    Bool(TRUE), Obj([code |-> Str("E1")]),
    Arr(<<>>), Arr(<<null>>), Arr(<<EmptyObj>>), Arr(<<Str("oops")>>),
    Arr(<<Obj([msg |-> null])>>), Arr(<<Obj([msg |-> Str("")])>>),
    Arr(<<Obj([msg |-> Num(5)])>>),
    Arr(<<Obj([msg |-> Str("field required")]), Obj([msg |-> Str("too short")])>>) }

\* The bodies of a response.
Bodies ==
  { NotJson, Json(null), Json(Str("Internal Server Error")), Json(EmptyObj),
    Json(Obj([access_token |-> Str("t1")])),
    Json(Obj([data |-> Obj([name |-> Str("Alan")]), from_cache |-> Bool(TRUE)])) }
    \cup { Json(Obj([detail |-> d])) : d \in Details }

\* Response.ok is true for the statuses 200 to 299 and for no other.
ApiResponses ==
  { Response(st \in 200..299, st, b) : st \in {200, 401, 500}, b \in Bodies }

ApiAnswers == Answers(ApiResponses)

InitApi ==
  /\ InitApp
  /\ storage = null
  /\ route = LoginUrl
  /\ loginSrc = "part_003"
  /\ registerSrc = "page.tsx"
  /\ apiCall \in [fn : ApiFns, ans : ApiAnswers, settled : {FALSE}, outcome : {undefined}]

\* The promise of the call settles to what `settles` gives for the answer.
ApiSettles(fn, settles(_)) ==
  /\ apiCall.fn = fn
  /\ ~apiCall.settled
  /\ apiCall' = [apiCall EXCEPT !.settled = TRUE, !.outcome = settles(apiCall.ans)]
  /\ UNCHANGED <<storage, route, buildVars, effectPending, calls, pageVars>>

NextApi ==
  \/ ApiSettles("login", login)
  \/ ApiSettles("register", register)
  \/ ApiSettles("uploadImage", uploadImage)
  \/ ApiSettles("getStructured", getStructured)

SpecApi == InitApi /\ [][NextApi]_vars

(***************************************************************************)
(* Properties.                                                             *)
(***************************************************************************)
MainFns == {"MainPage.onSubmit", "MainPage.onUploadImage"}
NonEmptyString(x) == x.t = "string" /\ x.v # ""
IsLoad == \E u \in Urls : Load(u)
\* The requests awaiting an answer.
Requests(cs) == {c.req : c \in BagToSet(cs)}
\* No request is sent in the step.
NoRequestSent ==
  /\ BagCardinality(calls') <= BagCardinality(calls)
  /\ Requests(calls') \subseteq Requests(calls)

\* The answer to a login request is an ok response whose JSON body holds a
\* non-empty access_token.
LoginSucceeds(ans) ==
  /\ ~ans.failed
  /\ ans.res.ok
  /\ ans.res.body.json
  /\ NonEmptyString(Get(ans.res.body.value, "access_token"))

\* The answer to a register request is an ok response with a JSON body.
RegisterSucceeds(ans) ==
  /\ ~ans.failed
  /\ ans.res.ok
  /\ ans.res.body.json

SucceededLogins == {a \in LoginAnswers : LoginSucceeds(a)}
FailedLogins == LoginAnswers \ SucceededLogins

\* The calls of handler fn that await the answer of endpoint and are gone
\* after the step.
Settling(fn, endpoint) ==
  IF calls' = calls THEN {}
  ELSE {c \in Pending : c.fn = fn /\ c.req.endpoint = endpoint}

\* C1: the mount effect of the main page sends a visitor without a token
\* (no entry, or an empty string) to /login and leaves the token state null;
\* otherwise it loads the stored token.  While the token state is null the
\* page is the placeholder: no form state has been touched and no request of
\* the main page is under way; once the effect has run on a page that stays,
\* the token state is a non-empty string.
C1_FormOnlyWithToken ==
  OnMainPage =>
    IF effectPending
    THEN /\ token = null
         /\ RendersPlaceholder
         /\ <<prompt, fields>> = <<InitialPrompt, InitialFields>>
         /\ <<file, imageId, imageUrl, result, error>> = <<null, null, null, null, null>>
         /\ <<fromCache, uploading, loading>> = <<FALSE, FALSE, FALSE>>
         /\ \A c \in Pending : c.fn \notin MainFns
    ELSE NonEmptyString(token) /\ RendersForm

C1_AuthGuard ==
  /\ []C1_FormOnlyWithToken
  /\ [][MainPage_useEffect =>
          IF storage = null \/ storage = Str("")
          THEN route' = LoginUrl /\ token' = null
          ELSE token' = storage /\ route' = route]_vars

C1_Witness ==
  /\ OnMainPage /\ ~effectPending
  /\ token = storage
  /\ RendersForm
  /\ file # null

\* C2: every upload or structured-query request under way was sent by the
\* mounted main page while its token state was non-null and carries
\* 'Bearer <that token>'; login and register requests carry no Authorization
\* header.  A submit with a null token navigates to /login, sends nothing
\* and leaves error, loading, result and fromCache as they are;
\* onUploadImage with a null token or no file changes nothing.
C2_RequestsCarryToken ==
  \A c \in Pending :
    /\ c.fn \in MainFns =>
         /\ OnMainPage
         /\ token.t = "string"
         /\ c.req.authorization = Str("Bearer " \o token.v)
         /\ c.req.endpoint \in {"/images/upload", "/llm/structured"}
    /\ c.req.endpoint \in {"/images/upload", "/llm/structured"} => c.fn \in MainFns
    /\ c.req.endpoint \in {"/auth/login", "/auth/register"} =>
         c.req.authorization = undefined

C2_NoRequestWithoutToken ==
  /\ []C2_RequestsCarryToken
  /\ [][MainPage_onSubmit /\ token = null =>
          /\ route' = LoginUrl
          /\ NoRequestSent
          /\ UNCHANGED <<error, loading, result, fromCache, lastResponse>>]_vars
  /\ [][onUploadImage /\ (token = null \/ file = null) => UNCHANGED vars]_vars

C2_Witness ==
  /\ \E c \in Pending :
       c.fn = "MainPage.onSubmit" /\ c.req.authorization = Str("Bearer t2")
  /\ \E c \in Pending :
       c.fn = "MainPage.onUploadImage" /\ c.req.authorization = Str("Bearer t2")

\* C3: a login submit whose call returns a non-empty token stores exactly
\* that token and navigates to '/' in the same turn; the app never navigates
\* to '/' leaving local storage without a token; while the main page waits
\* for its mount effect the token stays, and the effect then loads it
\* instead of redirecting.
C3_StoreThenNavigate ==
  /\ [][\A c \in Settling("LoginPage.onSubmit", "/auth/login"), ans \in SucceededLogins :
          LoginPage_onSubmit_settle(c, ans)
          => storage' = Get(ans.res.body.value, "access_token") /\ route' = HomeUrl]_vars
  /\ [][route.path # "/" /\ route'.path = "/" /\ ~IsLoad => NonEmptyString(storage')]_vars
  /\ [][OnMainPage /\ effectPending /\ NonEmptyString(storage) => NonEmptyString(storage')]_vars
  /\ [][MainPage_useEffect /\ NonEmptyString(storage) => route' = route /\ token' = storage]_vars

C3_Witness ==
  /\ OnMainPage /\ ~effectPending
  /\ storage = Str("t2")
  /\ token = Str("t2")

\* C4: when the login call fails, or answers with an empty or missing
\* access_token, local storage and the address stay as they are, and the
\* login page, if it is still the mounted one, shows an error (the message
\* of the failure, or 'No token returned') with loading false.  Every value
\* the app writes to local storage is a non-empty string; logout removes
\* the entry.
C4_LoginFailure ==
  /\ [][\A c \in Settling("LoginPage.onSubmit", "/auth/login"), ans \in FailedLogins :
          LoginPage_onSubmit_settle(c, ans)
          => /\ storage' = storage
             /\ route' = route
             /\ c.live =>
                  /\ error' # null
                  /\ error' = IF ~ans.failed /\ ans.res.ok /\ ans.res.body.json
                              THEN Str("No token returned")
                              ELSE login(ans).message
                  /\ ~loading']_vars
  /\ [][storage' # storage => storage' = null \/ NonEmptyString(storage')]_vars

C4_Witness ==
  /\ route.path = "/login"
  /\ error = Str("No token returned")
  /\ ~loading
  /\ storage = null

\* C5: no register request with differing password and confirmation is ever
\* under way; a submit of a registration form (either register page, or the
\* combined login page in register mode) with password # passwordConfirm
\* sends nothing, sets error to 'Passwords do not match', keeps the address
\* and local storage, and leaves loading false.
C5_Mismatch ==
  /\ [](\A c \in Pending :
          c.req.endpoint = "/auth/register" =>
            c.req.body.password = c.req.body.password_confirm)
  /\ [][(/\ password # passwordConfirm
         /\ \/ RegisterPage_onSubmit
            \/ mode = "register" /\ LoginPage2_onSubmit)
        => /\ calls' = calls
           /\ error' = Str("Passwords do not match")
           /\ route' = route
           /\ storage' = storage
           /\ ~loading']_vars

C5_Witness ==
  /\ route.path = "/register"
  /\ password # passwordConfirm
  /\ error = Str("Passwords do not match")
  /\ ~loading

\* C6 as stated: the register page navigates to /login?registered=1 exactly
\* when the passwords matched and the response was ok.
C6_NavigatesIffOk ==
  [][\A c \in Settling("RegisterPage.onSubmit", "/auth/register"), ans \in RegisterAnswers :
       RegisterPage_onSubmit_settle(c, ans) /\ route # RegisteredUrl
       => (route' = RegisteredUrl <=> ~ans.failed /\ ans.res.ok)]_vars

\* C6, amended: the register page navigates to /login?registered=1 exactly
\* when the register call resolved, that is when the passwords matched and
\* the response was ok with a body that parses as JSON; no step of a
\* register submit writes local storage; a failed call keeps the address and
\* shows the message of the failure on the page if it is still mounted.  The
\* login page sets registered when its effect runs at an address whose
\* registered parameter is '1', and keeps it until it is mounted anew.
C6_RegisterOutcome ==
  /\ [][\A c \in Settling("RegisterPage.onSubmit", "/auth/register"), ans \in RegisterAnswers :
          RegisterPage_onSubmit_settle(c, ans)
          => /\ storage' = storage
             /\ c.req.body.password = c.req.body.password_confirm
             /\ IF RegisterSucceeds(ans)
                THEN route' = RegisteredUrl
                ELSE /\ route' = route
                     /\ c.live => error' = register(ans).message /\ ~loading']_vars
  /\ [][RegisterPage_onSubmit => route' = route /\ storage' = storage]_vars
  /\ [][route' = RegisteredUrl /\ route # RegisteredUrl /\ ~IsLoad
        => \E c \in Pending :
             /\ c.fn = "RegisterPage.onSubmit"
             /\ calls' = Orphaned(Finished(c)) \/ calls' = Finished(c)]_vars
  /\ [][LoginPage_useEffect => registered' = (route = RegisteredUrl)]_vars
  /\ [](route.path = "/login" /\ effectPending => ~registered)
  /\ [][route.path = "/login" /\ ~effectPending /\ ~effectPending' /\ route'.path = "/login"
        => registered' = registered]_vars

C6_Witness ==
  /\ OnLoginPage("part_003")
  /\ route = RegisteredUrl
  /\ registered
  /\ \E c \in Pending : c.fn = "RegisterPage.onSubmit" /\ ~c.live

\* The structured queries the step sends.
SentQueries ==
  {c \in BagToSet(calls') :
     /\ c.fn = "MainPage.onSubmit"
     /\ CopiesIn(c, calls') > CopiesIn(c, calls)}

\* The text is whitespace only, or empty.
Blank(s) == \A i \in 1..Len(s) : s[i] \in Whitespace

\* t is s without the whitespace around it.
Stripped(t, s) ==
  /\ \E a \in 1..(Len(s) + 1), b \in 0..Len(s) :
       /\ t = SubSeq(s, a, b)
       /\ \A i \in 1..(a - 1) : s[i] \in Whitespace
       /\ \A i \in (b + 1)..Len(s) : s[i] \in Whitespace
  /\ t # <<>> => t[1] \notin Whitespace /\ t[Len(t)] \notin Whitespace

\* imageId is null after a file is picked and takes a new image only when an
\* upload settles.
ImageIdFromUpload ==
  /\ file' # file => imageId' = null
  /\ imageId' \notin {imageId, null} =>
       \E c \in Pending : c.fn = "MainPage.onUploadImage" /\ calls' = Finished(c)

\* C7: the request a submit sends holds, in the order displayed, the rows
\* whose name is not blank, each as {name, type} with the name stripped of
\* the whitespace around it (so no name is empty, no id is sent and every
\* type is 'string' or 'number'), the prompt stripped likewise, and as
\* image_id the imageId of the page at that moment, which is null unless an
\* upload has settled since the file was picked.
C7_StructuredRequest ==
  [][ /\ ImageIdFromUpload
      /\ \A c \in SentQueries :
           LET body == c.req.body
               kept == {k \in 1..Len(fields) : ~Blank(fields[k].name)}
               row(n) == CHOOSE k \in kept : Cardinality({i \in kept : i < k}) = n - 1
           IN /\ DOMAIN body = {"prompt", "fields", "image_id"}
              /\ Len(body.fields) = Cardinality(kept)
              /\ \A n \in 1..Len(body.fields) :
                   /\ DOMAIN body.fields[n] = {"name", "type"}
                   /\ Stripped(body.fields[n].name, fields[row(n)].name)
                   /\ body.fields[n].name # <<>>
                   /\ body.fields[n].type = fields[row(n)].type
                   /\ body.fields[n].type \in {"string", "number"}
              /\ Stripped(body.prompt, prompt)
              /\ body.image_id = imageId ]_vars

\* A query is under way whose request dropped a blank row, stripped a name
\* and the prompt, and names the uploaded image.
C7_Witness ==
  \E c \in Pending :
    /\ c.fn = "MainPage.onSubmit"
    /\ loading
    /\ Len(c.req.body.fields) = 2
    /\ Len(fields) = 3
    /\ fields[1].name = <<" ">>
    /\ fields[2].name = <<" ", "first", " ", "name", "\n">>
    /\ c.req.body.fields[1] = [name |-> <<"first", " ", "name">>, type |-> "string"]
    /\ c.req.body.fields[2].type = "number"
    /\ prompt = <<" ", "Why", " ", "so?", "\n">>
    /\ c.req.body.prompt = <<"Why", " ", "so?">>
    /\ c.req.body.image_id = Num(1)
    /\ imageId = Num(1)

\* C8: a submit of the form whose rows all have a blank name, or that has
\* no row, sends no request, sets error to 'Add at least one field', leaves
\* result null and fromCache false, and ends with loading false.
C8_FieldRequired ==
  [][ RendersForm /\ MainPage_onSubmit /\ (\A k \in 1..Len(fields) : Blank(fields[k].name))
        => /\ NoRequestSent
           /\ error' = Str("Add at least one field")
           /\ result' = null
           /\ fromCache' = FALSE
           /\ loading' = FALSE ]_vars

\* The form was submitted with two rows, both of blank name.
C8_Witness ==
  /\ RendersForm
  /\ Len(fields) = 2
  /\ fields[1].name = <<" ">>
  /\ fields[2].name = <<>>
  /\ error = Str("Add at least one field")
  /\ result = null
  /\ ~fromCache
  /\ ~loading
  /\ BagCardinality(calls) = 0

\* C9: result is null or the data of the last successful response a
\* structured query completed with, and fromCache is then the from_cache
\* flag of that response; fromCache is true only with a result; the page
\* marks a result 'from cache' when that flag was true and 'fresh' when it
\* was false, and shows no marker without a result.
C9_ResultOfLastResponse ==
  /\ \/ result = null
     \/ /\ lastResponse # null
        /\ result = Get(lastResponse, "data")
        /\ Bool(fromCache) = Get(lastResponse, "from_cache")
  /\ fromCache => result # null
  /\ RendersForm =>
       /\ CacheMarker = "from cache" <=>
            result # null /\ Get(lastResponse, "from_cache") = Bool(TRUE)
       /\ CacheMarker = "fresh" <=>
            result # null /\ Get(lastResponse, "from_cache") = Bool(FALSE)

\* A query answered from the cache is shown, marked 'from cache'.
C9_Witness ==
  /\ RendersForm
  /\ result = Obj([name |-> Str("Alan")])
  /\ lastResponse = Obj([data |-> result, from_cache |-> Bool(TRUE)])
  /\ fromCache
  /\ CacheMarker = "from cache"
  /\ ~loading

\* The detail of the body of a response: undefined when the body is not
\* JSON, is no object or has no detail.
DetailOf(res) ==
  IF res.body.json /\ res.body.value.t = "object" /\ "detail" \in DOMAIN res.body.value.v
  THEN res.body.value.v.detail
  ELSE undefined

\* The first element of the array d is an object whose msg is neither null
\* nor undefined.
FirstHasMsg(d) ==
  /\ Len(d.v) > 0
  /\ d.v[1].t = "object"
  /\ "msg" \in DOMAIN d.v[1].v
  /\ d.v[1].v.msg.t \notin {"null", "undefined"}

HttpStatus(res) == "HTTP " \o ToString(res.status)

\* C10 as stated: whichever of the four functions is called, a non-ok
\* response rejects, with detail as the message when detail is a string,
\* with the msg of the first element when detail is a non-empty array whose
\* first element has one, and with 'HTTP <status>' in every other case; an
\* ok response with a JSON body resolves, to that body for uploadImage and
\* getStructured.
C10_ErrorMapping ==
  apiCall.settled /\ ~apiCall.ans.failed =>
    LET res == apiCall.ans.res
        out == apiCall.outcome
        d == DetailOf(res)
    IN IF ~res.ok
       THEN /\ ~out.resolved
            /\ out.message =
                 Str(IF d.t = "string" THEN d.v
                     ELSE IF d.t = "array" /\ FirstHasMsg(d) THEN ToStr(d.v[1].v.msg)
                     ELSE HttpStatus(res))
       ELSE res.body.json /\ apiCall.fn \in {"uploadImage", "getStructured"} =>
              out.resolved /\ out.value = res.body.value

\* C10, amended: a non-ok response rejects whichever function is called;
\* the message is detail when detail is a non-empty string, String(msg) of
\* the first element when detail is an array whose first element is an
\* object with a msg that is neither null nor undefined, String(detail) when
\* detail is a non-zero number, true or an object that is no array, and
\* 'HTTP <status>' otherwise.  An ok response whose body is not JSON rejects
\* with the parse error; one whose body is JSON resolves to the body for
\* uploadImage and getStructured, to undefined for register and to the
\* access_token of the body for login, which rejects when the body is null.
C10_ClientOutcome ==
  apiCall.settled /\ ~apiCall.ans.failed =>
    LET res == apiCall.ans.res
        out == apiCall.outcome
        d == DetailOf(res)
    IN IF ~res.ok
       THEN /\ ~out.resolved
            /\ out.message =
                 Str(CASE d.t = "string" /\ d.v # "" -> d.v
                       [] d.t = "array" /\ FirstHasMsg(d) -> ToStr(d.v[1].v.msg)
                       [] d.t = "number" /\ d.v # 0 -> ToString(d.v)
                       [] d.t = "boolean" /\ d.v -> "true"
                       [] d.t = "object" -> "[object Object]"
                       [] OTHER -> HttpStatus(res))
       ELSE IF ~res.body.json
            THEN ~out.resolved /\ out.message = Str(SyntaxErrorMessage)
            ELSE CASE apiCall.fn \in {"uploadImage", "getStructured"} ->
                        out.resolved /\ out.value = res.body.value
                   [] apiCall.fn = "register" ->
                        out.resolved /\ out.value = undefined
                   [] apiCall.fn = "login" ->
                        IF res.body.value = null THEN ~out.resolved
                        ELSE /\ out.resolved
                             /\ out.value =
                                  IF res.body.value.t = "object"
                                     /\ "access_token" \in DOMAIN res.body.value.v
                                  THEN res.body.value.v.access_token
                                  ELSE undefined

\* A call has rejected for a non-ok response whose detail is an object.
C10_Witness ==
  /\ apiCall # null
  /\ apiCall.settled
  /\ apiCall.fn = "getStructured"
  /\ apiCall.ans = Answered(Response(FALSE, 500, Json(Obj([detail |-> Obj([code |-> Str("E1")])]))))
  /\ apiCall.outcome = Rejected("[object Object]")

\* C11: logout removes the stored token, leaves no token state and lands on
\* /login with no request of the main page under way.  While local storage
\* holds no token the main page, whenever it is mounted, is the placeholder
\* waiting for its effect, with no upload or query under way, and its effect
\* redirects to /login; only a login that succeeds stores a token again.
C11_LogoutEndsSession ==
  /\ [][logout =>
          /\ storage' = null
          /\ token' = null
          /\ route' = LoginUrl
          /\ \A c \in BagToSet(calls') : c.fn \notin MainFns]_vars
  /\ [](OnMainPage /\ storage = null =>
          /\ RendersPlaceholder
          /\ effectPending
          /\ \A c \in Pending : c.fn \notin MainFns)
  /\ [][MainPage_useEffect /\ storage = null => route' = LoginUrl /\ token' = null]_vars
  /\ [][storage = null /\ storage' # null =>
          \E c \in Settling("LoginPage.onSubmit", "/auth/login"), ans \in SucceededLogins :
            LoginPage_onSubmit_settle(c, ans)]_vars

\* Nothing is stored and the login page is being mounted while a login sent
\* by an earlier page is still unanswered, as after a logout from a session
\* that a second login opened.
C11_Witness ==
  /\ route = LoginUrl
  /\ effectPending
  /\ storage = null
  /\ token = null
  /\ \E c \in Pending : c.fn = "LoginPage.onSubmit" /\ ~c.live
  /\ BagCardinality(calls) = 1

\* The answers to a structured query that make getStructured reject.
FailedQueries ==
  {a \in StructuredAnswers : a.failed \/ ~a.res.ok \/ ~a.res.body.json}

\* C12: a submit of the form clears result and fromCache in the step that
\* sends the request or fails the validation; while loading is true result
\* is null and fromCache false; a query that fails leaves result null and
\* fromCache false next to its error.
C12_NoStaleResult ==
  /\ [](loading => result = null /\ fromCache = FALSE)
  /\ [][RendersForm /\ MainPage_onSubmit => result' = null /\ fromCache' = FALSE]_vars
  /\ [][\A c \in Settling("MainPage.onSubmit", "/llm/structured"), ans \in FailedQueries :
          MainPage_onSubmit_settle(c, ans)
          => result' = null /\ fromCache' = FALSE /\ error' # null /\ ~loading']_vars

\* After a query that showed a result, the next one failed: the error is
\* shown and no result.
C12_Witness ==
  /\ RendersForm
  /\ lastResponse # null
  /\ result = null
  /\ ~fromCache
  /\ error = Str("Incorrect username or password")
  /\ ~loading

\* The submits of the mounted page that await the backend.
LiveSubmits ==
  {c \in Pending :
     c.live /\ c.fn \in {"LoginPage.onSubmit", "RegisterPage.onSubmit", "MainPage.onSubmit"}}

\* The uploads that await the backend.
LiveUploads == {c \in Pending : c.live /\ c.fn = "MainPage.onUploadImage"}

\* C13: loading is false when a page is mounted, and true, with the submit
\* button disabled, exactly while a submit of the mounted page awaits the
\* backend; a submit that fails its local validation ends with loading
\* false; uploading is true exactly while an upload awaits the backend; and
\* with a backend that answers, loading and uploading always return to false.
C13_LoadingLifecycle ==
  /\ ~loading /\ ~uploading
  /\ [](effectPending => ~loading /\ ~uploading)
  /\ [](loading <=> LiveSubmits # {})
  /\ [](SubmitDisabled <=> LiveSubmits # {})
  /\ [](uploading <=> LiveUploads # {})
  /\ [][LiveSubmits = {} /\ calls' = calls => ~loading']_vars
  /\ loading ~> ~loading
  /\ uploading ~> ~uploading

\* A query and an upload both await the backend: the form shows loading and
\* uploading, with the submit and upload buttons disabled.
C13_Witness ==
  /\ RendersForm
  /\ loading /\ SubmitDisabled
  /\ uploading /\ UploadDisabled
  /\ Cardinality(LiveSubmits) = 1
  /\ Cardinality(LiveUploads) = 1

\* C14: an upload that succeeds sets imageId and imageUrl to the id and url
\* of the response in one step and leaves error as it is; one that fails
\* leaves imageId and imageUrl as they are and sets error to the message of
\* the failure; either way uploading ends false.  imageId is null exactly
\* when imageUrl is null.
C14_UploadOutcome ==
  /\ [](imageId = null <=> imageUrl = null)
  /\ [][\A c \in Settling("MainPage.onUploadImage", "/images/upload") :
          \A ans \in Answers(UploadResponses(c.req)) :
            onUploadImage_settle(c, ans)
            => /\ ~uploading'
               /\ IF ~ans.failed /\ ans.res.ok /\ ans.res.body.json
                  THEN /\ imageId' = ans.res.body.value.v.id
                       /\ imageUrl' = ans.res.body.value.v.url
                       /\ error' = error
                  ELSE /\ imageId' = imageId
                       /\ imageUrl' = imageUrl
                       /\ error' # null
                       /\ error' = uploadImage(ans).message]_vars

\* The image of the selected file is uploaded: the page holds its id and url.
C14_Witness ==
  /\ RendersForm
  /\ file = File("a.png")
  /\ imageId = Num(1)
  /\ imageUrl = Str("http://minio:9000/images/a.png")
  /\ ~uploading
  /\ error = null

\* What the file picker may hold.
FileChoices == {null} \cup {File(n) : n \in Files}

\* C15: a change of the file picker, to a file or to none, sets imageId and
\* imageUrl to null and leaves prompt, fields, result, fromCache, error,
\* loading, uploading, token and the requests under way as they are.  From
\* then on imageId stays null until an upload settles with success, and a
\* submit sends the imageId of that moment: null if no upload has.
C15_FileChangeDropsImage ==
  [][ /\ \A f \in FileChoices :
           RendersForm /\ onFileChange(f)
           => /\ file' = f
              /\ imageId' = null
              /\ imageUrl' = null
              /\ UNCHANGED <<prompt, fields, result, fromCache, error, loading,
                             uploading, token, calls>>
      /\ file' # file => imageId' = null /\ imageUrl' = null
      /\ imageId = null /\ imageId' # null
           => \E c \in Settling("MainPage.onUploadImage", "/images/upload") :
                /\ onUploadImage_settle(c, Answered(Response(TRUE, 200, Json(StoredImage(c.req.body.file)))))
                /\ imageId' = Get(StoredImage(c.req.body.file), "id")
      /\ \A c \in SentQueries : imageId = null => c.req.body.image_id = null ]_vars

\* The picker was changed to another file while the upload of the first was
\* under way, and the form was then submitted: the query names no image.
C15_Witness ==
  /\ RendersForm
  /\ file = File("b.png")
  /\ imageId = null
  /\ imageUrl = null
  /\ \E c \in Pending :
       c.fn = "MainPage.onUploadImage" /\ c.req.body.file = File("a.png")
  /\ \E c \in Pending :
       c.fn = "MainPage.onSubmit" /\ c.req.body.image_id = null

\* The positions of the rows of fs whose id is not id.
Kept(fs, id) == {i \in 1..Len(fs) : fs[i].id # id}

\* The position in fs of the n-th row whose id is not id.
KeptAt(fs, id, n) ==
  CHOOSE m \in Kept(fs, id) : Cardinality({i \in Kept(fs, id) : i <= m}) = n

\* The ids of the rows shown.
FieldIds == {fields[i].id : i \in 1..Len(fields)}

\* C16: removeField(id) leaves exactly the rows whose id is not id, as they
\* were and in their order; updateField(id, patch) keeps the number and the
\* order of the rows, writes the patch into the rows with that id and leaves
\* the others as they were; addField puts one row with an empty name and type
\* 'string' after the rows there were.  None of them changes prompt, file,
\* imageId, imageUrl, result, fromCache, error, loading, uploading or token,
\* and none sends a request.
C16_FieldEditsLocal ==
  [][ /\ \A id \in FieldIds :
           removeField(id)
           => /\ Len(fields') = Cardinality(Kept(fields, id))
              /\ \A n \in 1..Len(fields') : fields'[n] = fields[KeptAt(fields, id, n)]
      /\ \A id \in FieldIds, patch \in Patches :
           updateField(id, patch)
           => /\ Len(fields') = Len(fields)
              /\ \A i \in 1..Len(fields) :
                   IF fields[i].id = id
                   THEN /\ fields'[i].name = patch.name
                        /\ fields'[i].id = id
                        /\ fields'[i].type = fields[i].type
                   ELSE fields'[i] = fields[i]
      /\ \A now \in Timestamps :
           addField(now)
           => /\ Len(fields') = Len(fields) + 1
              /\ \A i \in 1..Len(fields) : fields'[i] = fields[i]
              /\ fields'[Len(fields')].name = <<>>
              /\ fields'[Len(fields')].type = "string"
      /\ fields' # fields
           => /\ UNCHANGED <<prompt, file, imageId, imageUrl, result, fromCache,
                             error, loading, uploading, token, storage, route>>
              /\ calls' = calls ]_vars

\* Two rows added in the same millisecond share an id; the first of them was
\* given a name before the second was added, a row with another id stands
\* before them, and an uploaded image is there to be left alone.
C16_Witness ==
  /\ RendersForm
  /\ Len(fields) = 3
  /\ fields[1].id # 1001
  /\ fields[2].id = 1001
  /\ fields[3].id = 1001
  /\ fields[2].name # <<>>
  /\ fields[3].name = <<>>
  /\ imageId # null

\* The requests the step sends from the submit handler of the login page.
SentByLogin ==
  {c.req : c \in {d \in BagToSet(calls') :
                    /\ d.fn = "LoginPage.onSubmit"
                    /\ CopiesIn(d, calls') > CopiesIn(d, calls)}}

\* C17: on the combined login page a submit in 'register' mode sends the
\* register request and nothing else; the login request follows only when
\* register has succeeded, for the same username and password; when register
\* fails no request is sent, local storage and the route stay as they are.
\* A submit in 'login' mode sends the login request: a register request is
\* only ever sent in 'register' mode.
C17_RegisterThenLogin ==
  [][ loginSrc = "part_002"
      => /\ \A r \in SentByLogin :
              \/ /\ r.endpoint = "/auth/register"
                 /\ mode = "register"
                 /\ LoginPage2_onSubmit
                 /\ SentByLogin = {r}
              \/ /\ r.endpoint = "/auth/login"
                 /\ mode = "login"
                 /\ LoginPage2_onSubmit
              \/ /\ r.endpoint = "/auth/login"
                 /\ \E c \in Settling("LoginPage.onSubmit", "/auth/register") :
                      /\ r.body.username = c.req.body.username
                      /\ r.body.password = c.req.body.password
                      /\ \E ans \in RegisterAnswers :
                           /\ RegisterSucceeds(ans)
                           /\ LoginPage2_onSubmit_registered(c, ans)
         /\ LoginPage2_onSubmit
              => IF mode = "register"
                 THEN \A r \in SentByLogin : r.endpoint = "/auth/register"
                 ELSE \A r \in SentByLogin : r.endpoint = "/auth/login"
         /\ \A c \in Settling("LoginPage.onSubmit", "/auth/register") :
              \A ans \in RegisterAnswers :
                LoginPage2_onSubmit_registered(c, ans) /\ ~RegisterSucceeds(ans)
                => /\ SentByLogin = {}
                   /\ Requests(calls') \subseteq Requests(calls)
                   /\ storage' = storage
                   /\ route' = route ]_vars

\* Register has succeeded on the combined page and the login request for the
\* same account is under way.
C17_Witness ==
  /\ OnLoginPage("part_002")
  /\ mode = "register"
  /\ loading
  /\ password = passwordConfirm
  /\ \E c \in Pending :
       /\ c.fn = "LoginPage.onSubmit"
       /\ c.req.endpoint = "/auth/login"
       /\ c.req.body.username = username
       /\ c.req.body.password = password
  /\ storage = null

\* C18: on the main page a non-null imageId is the id the backend gave to
\* the file the picker holds, also when the picker is changed while an upload
\* is under way; so a query sent carries no image_id or the one of the file
\* in the picker.
C18_ImageOfSelectedFile ==
  /\ [](OnMainPage /\ imageId # null
          => /\ file # null
             /\ imageId = Get(StoredImage(file), "id"))
  /\ [][\A c \in BagToSet(calls') :
          /\ c.fn = "MainPage.onSubmit"
          /\ CopiesIn(c, calls') > CopiesIn(c, calls)
          => \/ c.req.body.image_id = null
             \/ /\ file # null
                /\ c.req.body.image_id = Get(StoredImage(file), "id")]_vars

====
